---- MODULE Spec2Model ----
(***************************************************************************)
(* Model of the transaction normalizers of Transaction_Reconciliation:     *)
(*   normalize.py   clean_amount, clean_merchant_name, parse_date,         *)
(*                  normalize_batch (pandas table -> list of records)      *)
(*   normalizer.py  TransactionNormalizer.normalize, normalize_batch       *)
(*                                                                         *)
(* A Python str is a sequence of characters; a character is a one-letter   *)
(* string, except the non-ASCII currency signs, which are the atoms Rupee, *)
(* Yen, Euro and Pound.  A call is one action: it draws its argument from  *)
(* a bounded set and leaves the argument and the result in the state.      *)
(***************************************************************************)
EXTENDS Integers, Sequences, FiniteSets, TLC

VARIABLES
    fn,      \* the function that was called last ("idle" between calls)
    arg,     \* its argument
    ret,     \* the value it returned (NoValue when it raised)
    raised,  \* the exception it raised ("none" when it returned)
    prev,    \* the argument of the call before, when arg is that call's result
    idx      \* normalizer.normalize_batch: rows the comprehension has done

vars == <<fn, arg, ret, raised, prev, idx>>

(***************************************************************************)
(* Bounds of the model.                                                    *)
(***************************************************************************)
MaxTextLen == 4
MaxAmountLen == 4
MaxTxns == 2
MaxPieces == 3

(***************************************************************************)
(* Characters and the str methods the code uses.                           *)
(***************************************************************************)
Rupee == "rupee-sign"
Yen == "yen-sign"
Euro == "euro-sign"
Pound == "pound-sign"
Tab == "\t"

UpperCase ==
    <<"A","B","C","D","E","F","G","H","I","J","K","L","M",
      "N","O","P","Q","R","S","T","U","V","W","X","Y","Z">>
LowerCase ==
    <<"a","b","c","d","e","f","g","h","i","j","k","l","m",
      "n","o","p","q","r","s","t","u","v","w","x","y","z">>
DigitChars == <<"0","1","2","3","4","5","6","7","8","9">>

Range(s) == {s[i] : i \in 1..Len(s)}

IsDigit(c) == c \in Range(DigitChars)
IsLowerLetter(c) == c \in Range(LowerCase)
IsUpperLetter(c) == c \in Range(UpperCase)
\* \s of re and the whitespace of str.strip / str.split
IsSpace(c) == c \in {" ", Tab}

DigitVal(c) == (CHOOSE i \in 1..10 : DigitChars[i] = c) - 1

LowerChar(c) ==
    IF IsUpperLetter(c)
    THEN LowerCase[CHOOSE i \in 1..26 : UpperCase[i] = c]
    ELSE c
UpperChar(c) ==
    IF IsLowerLetter(c)
    THEN UpperCase[CHOOSE i \in 1..26 : LowerCase[i] = c]
    ELSE c

\* str.lower, str.upper
lower(s) == [i \in 1..Len(s) |-> LowerChar(s[i])]
upper(s) == [i \in 1..Len(s) |-> UpperChar(s[i])]

RECURSIVE lstrip(_)
lstrip(s) ==
    IF s # <<>> /\ IsSpace(Head(s)) THEN lstrip(Tail(s)) ELSE s
RECURSIVE rstrip(_)
rstrip(s) ==
    IF s # <<>> /\ IsSpace(s[Len(s)]) THEN rstrip(SubSeq(s, 1, Len(s) - 1)) ELSE s
\* str.strip()
strip(s) == rstrip(lstrip(s))

\* str.replace(old, new) for a one-character old
RECURSIVE replace(_, _, _)
replace(s, old, new) ==
    IF s = <<>> THEN <<>>
    ELSE (IF Head(s) = old THEN new ELSE <<Head(s)>>) \o replace(Tail(s), old, new)

\* re.sub(r'[...]', repl, s) for a character class given as a set
RECURSIVE re_sub_class(_, _, _)
re_sub_class(cls, repl, s) ==
    IF s = <<>> THEN <<>>
    ELSE (IF Head(s) \in cls THEN repl ELSE <<Head(s)>>)
         \o re_sub_class(cls, repl, Tail(s))

\* re.sub(r'[^a-z0-9\s]', repl, s)
RECURSIVE re_sub_not_alnum_space(_, _)
re_sub_not_alnum_space(repl, s) ==
    IF s = <<>> THEN <<>>
    ELSE (IF IsLowerLetter(Head(s)) \/ IsDigit(Head(s)) \/ IsSpace(Head(s))
          THEN <<Head(s)>> ELSE repl)
         \o re_sub_not_alnum_space(repl, Tail(s))

\* re.sub(r'\s+', ' ', s): every maximal run of whitespace becomes one space
RECURSIVE re_sub_spaces(_)
re_sub_spaces(s) ==
    IF s = <<>> THEN <<>>
    ELSE IF IsSpace(Head(s))
         THEN <<" ">> \o re_sub_spaces(lstrip(s))
         ELSE <<Head(s)>> \o re_sub_spaces(Tail(s))

\* the first whitespace-delimited word of s, s not starting with whitespace
RECURSIVE FirstWord(_)
FirstWord(s) ==
    IF s = <<>> \/ IsSpace(Head(s)) THEN <<>>
    ELSE <<Head(s)>> \o FirstWord(Tail(s))

\* str.split(): the list of the maximal runs of non-whitespace
RECURSIVE split(_)
split(s) ==
    LET t == lstrip(s)
        w == FirstWord(t)
    IN  IF t = <<>> THEN <<>>
        ELSE <<w>> \o split(SubSeq(t, Len(w) + 1, Len(t)))

\* ' '.join(words)
RECURSIVE join(_)
join(words) ==
    IF words = <<>> THEN <<>>
    ELSE IF Len(words) = 1 THEN words[1]
    ELSE words[1] \o <<" ">> \o join(Tail(words))

(***************************************************************************)
(* Values: a table cell, a dict value, a field of a record.                *)
(*   k = "nan"   missing (NaN)          k = "none"  None                   *)
(*   k = "str"   the str v              k = "int"   the int n              *)
(*   k = "float" the float n / 10^e     k = "dict"  a raw row (field d)    *)
(***************************************************************************)
NaN == [k |-> "nan", v |-> <<>>, n |-> 0, e |-> 0]
None == [k |-> "none", v |-> <<>>, n |-> 0, e |-> 0]
Str(s) == [k |-> "str", v |-> s, n |-> 0, e |-> 0]
IntV(i) == [k |-> "int", v |-> <<>>, n |-> i, e |-> 0]

RECURSIVE Reduce(_, _)
\* the float n / 10^e with the trailing zeros of its fraction dropped
Reduce(n, e) ==
    IF e > 0 /\ n % 10 = 0 THEN Reduce(n \div 10, e - 1) ELSE <<n, e>>
Float(n, e) ==
    LET r == Reduce(n, e)
    IN  [k |-> "float", v |-> <<>>, n |-> r[1], e |-> r[2]]

\* pd.isna(x)
isna(x) == x.k \in {"nan", "none"}

RECURSIVE NatDigits(_)
NatDigits(i) ==
    IF i < 10 THEN <<DigitChars[i + 1]>>
    ELSE NatDigits(i \div 10) \o <<DigitChars[(i % 10) + 1]>>

RECURSIVE FracDigits(_, _)
\* the e digits of the fraction f, zero-padded on the left
FracDigits(f, e) ==
    IF e = 0 THEN <<>>
    ELSE FracDigits(f \div 10, e - 1) \o <<DigitChars[(f % 10) + 1]>>

RECURSIVE Pow10(_)
Pow10(e) == IF e = 0 THEN 1 ELSE 10 * Pow10(e - 1)

\* str(x) of a str, an int or a float
str(x) ==
    IF x.k = "str" THEN x.v
    ELSE IF x.k = "int"
    THEN (IF x.n < 0 THEN <<"-">> ELSE <<>>) \o NatDigits(IF x.n < 0 THEN -x.n ELSE x.n)
    ELSE IF x.k = "float"
    THEN LET a == IF x.n < 0 THEN -x.n ELSE x.n
         IN  (IF x.n < 0 THEN <<"-">> ELSE <<>>)
             \o NatDigits(a \div Pow10(x.e)) \o <<".">>
             \o (IF x.e = 0 THEN <<"0">> ELSE FracDigits(a % Pow10(x.e), x.e))
    ELSE IF x.k = "none" THEN <<"N","o","n","e">>
    ELSE <<"n","a","n">>

\* Python truthiness of a value
truthy(x) ==
    CASE x.k = "str" -> x.v # <<>>
      [] x.k = "int" -> x.n # 0
      [] x.k = "float" -> x.n # 0
      [] x.k = "none" -> FALSE
      [] OTHER -> TRUE

(***************************************************************************)
(* float(s) of a str: an optional sign, digits with at most one decimal    *)
(* point and at least one digit.  ValueError otherwise.  (The characters   *)
(* of the other literals float accepts -- e, _, inf, nan -- are in no      *)
(* argument the model draws.)                                              *)
(***************************************************************************)
ValueError == [k |-> "raise", v |-> <<>>, n |-> 0, e |-> 0]
TypeError == [k |-> "raise", v |-> <<>>, n |-> 1, e |-> 0]
IsRaise(x) == x.k = "raise"

RECURSIVE DigitsVal(_)
DigitsVal(s) ==
    IF s = <<>> THEN 0 ELSE DigitsVal(SubSeq(s, 1, Len(s) - 1)) * 10 + DigitVal(s[Len(s)])

IsDecimalBody(s) ==
    /\ \E i \in 1..Len(s) : IsDigit(s[i])
    /\ \A i \in 1..Len(s) : IsDigit(s[i]) \/ s[i] = "."
    /\ Cardinality({i \in 1..Len(s) : s[i] = "."}) <= 1

float_of_str(s) ==
    LET signed == s # <<>> /\ Head(s) \in {"-", "+"}
        body == IF signed THEN Tail(s) ELSE s
        digits == SelectSeq(body, IsDigit)
        dot == IF \E i \in 1..Len(body) : body[i] = "."
               THEN CHOOSE i \in 1..Len(body) : body[i] = "."
               ELSE Len(body) + 1
        e == IF dot > Len(body) THEN 0 ELSE Len(body) - dot
        m == DigitsVal(digits)
    IN  IF IsDecimalBody(body)
        THEN Float(IF signed /\ Head(s) = "-" THEN -m ELSE m, e)
        ELSE ValueError

\* float(x) of any value
float(x) ==
    CASE x.k = "str" -> float_of_str(strip(x.v))
      [] x.k = "int" -> Float(x.n, 0)
      [] x.k = "float" -> x
      [] OTHER -> TypeError

(***************************************************************************)
(* normalize.py: clean_amount                                              *)
(***************************************************************************)
\* the class [₹$€£, " ']
AmountJunk == {Rupee, "$", Euro, Pound, ",", " ", "\"", "'"}

\* variant: the thousands separator is not in the class
clean_amount_keeps_commas(amount_str) ==
    IF isna(amount_str) \/ amount_str = Str(<<>>)
    THEN Float(0, 0)
    ELSE LET s == re_sub_class(AmountJunk \ {","}, <<>>, strip(str(amount_str)))
             f == float_of_str(s)
         IN  IF IsRaise(f) THEN Float(0, 0) ELSE f

clean_amount(amount_str) ==
    IF isna(amount_str) \/ amount_str = Str(<<>>)
    THEN Float(0, 0)
    ELSE LET s == re_sub_class(AmountJunk, <<>>, strip(str(amount_str)))
             f == float_of_str(s)
         IN  IF IsRaise(f) THEN Float(0, 0) ELSE f

(***************************************************************************)
(* normalize.py: clean_merchant_name                                       *)
(***************************************************************************)
stopwords ==
    { <<"p","v","t">>, <<"l","t","d">>, <<"l","i","m","i","t","e","d">>,
      <<"i","n","d","i","a">>, <<"i","n","c">>, <<"c","o","r","p">>,
      <<"c","o","r","p","o","r","a","t","i","o","n">>,
      <<"o","n","l","i","n","e">>, <<"p","o","s">>, <<"t","r","a","n","s">>,
      <<"t","r","a","n","s","a","c","t","i","o","n">> }

\* variant: only the first two words of the list are dropped
NotStopword_first_two_only(w) == w \notin {<<"p","v","t">>, <<"l","t","d">>}

NotStopword(w) == w \notin stopwords

\* variant: the stopwords are dropped before the special characters are removed
clean_merchant_name_stopwords_first(merchant) ==
    IF isna(merchant) \/ merchant = Str(<<>>)
    THEN <<>>
    ELSE LET m1 == lower(strip(str(merchant)))
             m2 == re_sub_class({"_", "-", ".", "/"}, <<" ">>, m1)
             m4 == strip(re_sub_spaces(m2))
             words == SelectSeq(split(m4), NotStopword)
         IN  strip(re_sub_not_alnum_space(<<>>, join(words)))

\* variant: every special character becomes a space, as a separator does
clean_merchant_name_symbols_to_spaces(merchant) ==
    IF isna(merchant) \/ merchant = Str(<<>>)
    THEN <<>>
    ELSE LET m1 == lower(strip(str(merchant)))
             m3 == re_sub_not_alnum_space(<<" ">>, m1)
             m4 == strip(re_sub_spaces(m3))
             words == SelectSeq(split(m4), NotStopword)
         IN  strip(join(words))

clean_merchant_name(merchant) ==
    IF isna(merchant) \/ merchant = Str(<<>>)
    THEN <<>>
    ELSE LET m1 == lower(strip(str(merchant)))
             m2 == re_sub_class({"_", "-", ".", "/"}, <<" ">>, m1)
             m3 == re_sub_not_alnum_space(<<>>, m2)
             m4 == strip(re_sub_spaces(m3))
             words == SelectSeq(split(m4), NotStopword)
         IN  strip(join(words))

(***************************************************************************)
(* datetime.strptime(s, fmt).  A format is the list of its directives and  *)
(* literal characters.  Each directive consumes what its regular           *)
(* expression in CPython's _strptime matches at the position reached; the  *)
(* whole string must be consumed, the year must be at least 1 and the day  *)
(* must exist in the month (and the second be at most 59).  %y maps 00..68 *)
(* to 2000..2068 and 69..99 to 1969..1999.                                 *)
(***************************************************************************)
MonthAbbr ==
    << <<"j","a","n">>, <<"f","e","b">>, <<"m","a","r">>, <<"a","p","r">>,
       <<"m","a","y">>, <<"j","u","n">>, <<"j","u","l">>, <<"a","u","g">>,
       <<"s","e","p">>, <<"o","c","t">>, <<"n","o","v">>, <<"d","e","c">> >>

EndOfString == ""
At(s, p) == IF p >= 1 /\ p <= Len(s) THEN s[p] ELSE EndOfString
IsNonZeroDigit(c) == IsDigit(c) /\ c # "0"

\* the number of characters the directive consumes at p, 0 when it does not match
DirectiveLen(item, s, p) ==
    LET c1 == At(s, p)
        c2 == At(s, p + 1)
    IN  CASE item = "%d" ->
              IF c1 = "3" /\ c2 \in {"0", "1"} THEN 2
              ELSE IF c1 \in {"1", "2"} /\ IsDigit(c2) THEN 2
              ELSE IF c1 = "0" /\ IsNonZeroDigit(c2) THEN 2
              ELSE IF IsNonZeroDigit(c1) THEN 1
              ELSE IF c1 = " " /\ IsNonZeroDigit(c2) THEN 2
              ELSE 0
          [] item = "%m" ->
              IF c1 = "1" /\ c2 \in {"0", "1", "2"} THEN 2
              ELSE IF c1 = "0" /\ IsNonZeroDigit(c2) THEN 2
              ELSE IF IsNonZeroDigit(c1) THEN 1
              ELSE 0
          [] item = "%Y" ->
              IF \A i \in 0..3 : IsDigit(At(s, p + i)) THEN 4 ELSE 0
          [] item = "%y" ->
              IF IsDigit(c1) /\ IsDigit(c2) THEN 2 ELSE 0
          [] item = "%H" ->
              IF c1 = "2" /\ c2 \in {"0", "1", "2", "3"} THEN 2
              ELSE IF c1 \in {"0", "1"} /\ IsDigit(c2) THEN 2
              ELSE IF IsDigit(c1) THEN 1
              ELSE 0
          [] item = "%M" ->
              IF c1 \in {"0", "1", "2", "3", "4", "5"} /\ IsDigit(c2) THEN 2
              ELSE IF IsDigit(c1) THEN 1
              ELSE 0
          [] item = "%S" ->
              IF c1 = "6" /\ c2 \in {"0", "1"} THEN 2
              ELSE IF c1 \in {"0", "1", "2", "3", "4", "5"} /\ IsDigit(c2) THEN 2
              ELSE IF IsDigit(c1) THEN 1
              ELSE 0
          [] item = "%b" ->
              IF p + 2 <= Len(s)
                 /\ \E i \in 1..12 : MonthAbbr[i] = lower(SubSeq(s, p, p + 2))
              THEN 3 ELSE 0
          [] item = " " ->
              \* whitespace in a format is \s+
              IF IsSpace(c1) THEN Len(s) - p + 1 - Len(lstrip(SubSeq(s, p, Len(s))))
              ELSE 0
          [] OTHER ->
              IF c1 = item THEN 1 ELSE 0

IsLeap(y) == (y % 4 = 0 /\ y % 100 # 0) \/ y % 400 = 0
DaysIn(m, y) ==
    IF m = 2 THEN (IF IsLeap(y) THEN 29 ELSE 28)
    ELSE IF m \in {4, 6, 9, 11} THEN 30 ELSE 31

NoMatch == [ok |-> FALSE, pos |-> 0, y |-> 0, m |-> 0, d |-> 0, sec |-> 0]

\* the match st after the item has consumed the l characters of s at st.pos
Found(item, s, st, l) ==
    LET val == DigitsVal(SelectSeq(SubSeq(s, st.pos, st.pos + l - 1), IsDigit))
        nx == [st EXCEPT !.pos = st.pos + l]
    IN  CASE l = 0 -> NoMatch
          [] l > 0 /\ item = "%d" -> [nx EXCEPT !.d = val]
          [] l > 0 /\ item = "%m" -> [nx EXCEPT !.m = val]
          [] l > 0 /\ item = "%Y" -> [nx EXCEPT !.y = val]
          [] l > 0 /\ item = "%y" ->
               [nx EXCEPT !.y = IF val <= 68 THEN 2000 + val ELSE 1900 + val]
          [] l > 0 /\ item = "%b" ->
               [nx EXCEPT !.m = CHOOSE j \in 1..12 :
                   MonthAbbr[j] = lower(SubSeq(s, st.pos, st.pos + 2))]
          [] l > 0 /\ item = "%S" -> [nx EXCEPT !.sec = val]
          [] OTHER -> nx

RECURSIVE MatchFrom(_, _, _, _)
\* the fields found by the items i.. of fmt, from the match st of the items before
MatchFrom(fmt, i, s, st) ==
    IF i > Len(fmt) \/ ~st.ok THEN st
    ELSE MatchFrom(fmt, i + 1, s, Found(fmt[i], s, st, DirectiveLen(fmt[i], s, st.pos)))

\* the match st when it is a date and has consumed all of s
WholeDate(s, st) ==
    IF /\ st.ok
       /\ st.pos = Len(s) + 1
       /\ st.y >= 1
       /\ st.d <= DaysIn(st.m, st.y)
       /\ st.sec <= 59
    THEN st
    ELSE NoMatch

\* datetime.strptime(s, fmt): the date, or ok = FALSE for ValueError
strptime(s, fmt) ==
    WholeDate(s, MatchFrom(fmt, 1, s,
                     [ok |-> TRUE, pos |-> 1, y |-> 1900, m |-> 1, d |-> 1, sec |-> 0]))

Pad2(i) == IF i < 10 THEN <<"0">> \o NatDigits(i) ELSE NatDigits(i)
RECURSIVE ZeroPad(_, _)
ZeroPad(s, w) == IF Len(s) >= w THEN s ELSE ZeroPad(<<"0">> \o s, w)

\* dt.strftime('%Y-%m-%d'): the C library's %Y writes the year without padding
strftime(dt) == NatDigits(dt.y) \o <<"-">> \o Pad2(dt.m) \o <<"-">> \o Pad2(dt.d)
\* date.isoformat(): the year has four digits
isoformat(dt) == ZeroPad(NatDigits(dt.y), 4) \o <<"-">> \o Pad2(dt.m) \o <<"-">> \o Pad2(dt.d)

(***************************************************************************)
(* normalize.py: parse_date                                                *)
(***************************************************************************)
date_formats ==
    << <<"%d", "-", "%m", "-", "%Y">>,
       <<"%Y", ".", "%m", ".", "%d">>,
       <<"%d", "-", "%b", "-", "%Y">>,
       <<"%d", "/", "%m", "/", "%Y">>,
       <<"%m", "/", "%d", "/", "%y">>,
       <<"%d", "/", "%m", "/", "%y">>,
       <<"%Y", "-", "%m", "-", "%d">> >>

\* if dt.year < 100: dt = dt.replace(year=dt.year + 2000)
fix_year(dt) == IF dt.y < 100 THEN [dt EXCEPT !.y = 2000 + dt.y] ELSE dt

RECURSIVE parse_date_from(_, _)
\* the loop over date_formats, from format i on
parse_date_from(s, i) ==
    IF i > Len(date_formats) THEN None
    ELSE IF strptime(s, date_formats[i]).ok
    THEN Str(strftime(fix_year(strptime(s, date_formats[i]))))
    ELSE parse_date_from(s, i + 1)

parse_date(date_str) ==
    IF isna(date_str) \/ date_str = Str(<<>>)
    THEN None
    ELSE parse_date_from(strip(str(date_str)), 1)

(***************************************************************************)
(* normalize.py: normalize_batch.  df is the table pd.read_csv returned:   *)
(* its column names and its rows, a row giving each column a cell (NaN for *)
(* an empty cell).                                                         *)
(***************************************************************************)
Chars(name) ==
    CASE name = "bank" -> <<"b","a","n","k">>
      [] name = "ledger" -> <<"l","e","d","g","e","r">>
      [] name = "INR" -> <<"I","N","R">>

ledger_mapping ==
    [txn_id |-> "id", entry_date |-> "date", amt |-> "amount",
     vendor |-> "merchant", ref_code |-> "reference", cur |-> "currency"]
bank_mapping ==
    [stmt_ref |-> "id", booking_date |-> "date", tx_val |-> "amount",
     description |-> "merchant", ext_memo |-> "reference", unit |-> "currency"]

required_columns ==
    <<"id", "date", "amount", "merchant", "merchant_clean",
      "reference", "currency", "source">>

\* df.rename(columns={k: v for k, v in column_mapping.items() if k in df.columns})
rename(df, column_mapping) ==
    LET new(c) == IF c \in DOMAIN column_mapping THEN column_mapping[c] ELSE c
        old(c) == CHOOSE o \in df.columns : new(o) = c
        cols == {new(c) : c \in df.columns}
    IN  [columns |-> cols,
         rows |-> [i \in 1..Len(df.rows) |-> [c \in cols |-> df.rows[i][old(c)]]]]

\* df[col] = df[col].apply(f) when col is a column; f has one argument
with_column(df, col, cells) ==
    [columns |-> df.columns \cup {col},
     rows |-> [i \in 1..Len(df.rows) |->
                 [c \in df.columns \cup {col} |->
                     IF c = col THEN cells[i] ELSE df.rows[i][c]]]]

\* df[col] = value
with_constant(df, col, value) ==
    with_column(df, col, [i \in 1..Len(df.rows) |-> value])

\* variant: the missing cells are left as they are
fillna_keeps_missing(cell, value) == cell

\* .fillna(value)
fillna(cell, value) == IF isna(cell) THEN value ELSE cell

Returned(value) == [raised |-> "none", value |-> value]
Raised(exc) == [raised |-> exc, value |-> <<>>]

\* 3. Clean dates
clean_dates(df) ==
    IF "date" \in df.columns
    THEN with_column(df, "date",
             [i \in 1..Len(df.rows) |-> parse_date(df.rows[i]["date"])])
    ELSE df

\* 4. Clean amounts
clean_amounts(df) ==
    IF "amount" \in df.columns
    THEN with_column(df, "amount",
             [i \in 1..Len(df.rows) |-> clean_amount(df.rows[i]["amount"])])
    ELSE df

\* 5. Clean merchant names
clean_merchant_names(df) ==
    IF "merchant" \in df.columns
    THEN with_column(df, "merchant_clean",
             [i \in 1..Len(df.rows) |-> Str(clean_merchant_name(df.rows[i]["merchant"]))])
    ELSE with_constant(with_constant(df, "merchant", Str(<<>>)),
                       "merchant_clean", Str(<<>>))

\* 6. Handle missing reference ...
handle_reference(df) ==
    IF "reference" \notin df.columns
    THEN with_constant(df, "reference", Str(<<>>))
    ELSE with_column(df, "reference",
             [i \in 1..Len(df.rows) |->
                 Str(str(fillna(df.rows[i]["reference"], Str(<<>>))))])

\* ... and currency
handle_currency(df) ==
    IF "currency" \notin df.columns
    THEN with_constant(df, "currency", Str(Chars("INR")))
    ELSE with_column(df, "currency",
             [i \in 1..Len(df.rows) |->
                 Str(upper(str(fillna(df.rows[i]["currency"], Str(Chars("INR"))))))])

\* 7. Add source field
add_source(df, source) == with_constant(df, "source", Str(lower(source)))

\* 8. a required column still missing gets its default;
\* 9. df[required_columns].to_dict('records')
to_dict(df) ==
    [i \in 1..Len(df.rows) |->
        [c \in Range(required_columns) |->
            IF c \in df.columns THEN df.rows[i][c]
            ELSE IF c # "amount" THEN Str(<<>>) ELSE Float(0, 0)]]

\* steps 3 to 9, on the renamed table
normalize_columns(df, source) ==
    to_dict(add_source(handle_currency(handle_reference(
        clean_merchant_names(clean_amounts(clean_dates(df))))), source))

normalize_batch(df, source) ==
    IF df.rows = <<>> \/ df.columns = {}
    THEN Returned(<<>>)
    ELSE IF lower(source) = Chars("ledger")
    THEN Returned(normalize_columns(rename(df, ledger_mapping), source))
    ELSE IF lower(source) = Chars("bank")
    THEN Returned(normalize_columns(rename(df, bank_mapping), source))
    ELSE Raised("ValueError")

(***************************************************************************)
(* normalizer.py: TransactionNormalizer.  A raw transaction is a dict: a   *)
(* function from the keys it has to their values.  self.source is the      *)
(* lowercased source name.                                                 *)
(***************************************************************************)
\* txn.get(key)
get(txn, key) == IF key \in DOMAIN txn THEN txn[key] ELSE None
\* a or b
Or(a, b) == IF truthy(a) THEN a ELSE b

_get_id(txn) ==
    Str(str(Or(get(txn, "id"),
            Or(get(txn, "txn_id"),
            Or(get(txn, "transaction_id"), Str(<<>>))))))

_get_description(txn) ==
    Str(str(Or(get(txn, "desc"),
            Or(get(txn, "description"),
            Or(get(txn, "narration"),
            Or(get(txn, "merchant"), Str(<<>>)))))))

\* if isinstance(amt, str): amt = amt.replace(",", "").strip()
without_commas(amt) ==
    IF amt.k = "str" THEN Str(strip(replace(amt.v, ",", <<>>))) ELSE amt

\* try: return float(amt)  except: return 0.0
float_or_zero(f) == IF IsRaise(f) THEN Float(0, 0) ELSE f

_normalize_amount(txn) ==
    float_or_zero(float(without_commas(
        Or(get(txn, "amount"), Or(get(txn, "amt"), IntV(0))))))

normalizer_formats ==
    << <<"%Y", "-", "%m", "-", "%d">>,
       <<"%d", "-", "%m", "-", "%Y">>,
       <<"%Y", "/", "%m", "/", "%d">>,
       <<"%d", "/", "%m", "/", "%Y">>,
       <<"%Y", "-", "%m", "-", "%d", " ", "%H", ":", "%M", ":", "%S">> >>

\* datetime.strptime(raw[:19], fmt).date().isoformat(), or the exception
try_format(raw, fmt) ==
    IF raw.k # "str" THEN TypeError
    ELSE LET dt == strptime(SubSeq(raw.v, 1, IF Len(raw.v) < 19 THEN Len(raw.v) ELSE 19), fmt)
         IN  IF dt.ok THEN Str(isoformat(dt)) ELSE ValueError

RECURSIVE _normalize_date_from_value_errors_only(_, _)
\* variant: except ValueError, so the TypeError of raw[:19] on a number escapes
_normalize_date_from_value_errors_only(raw, i) ==
    IF i > Len(normalizer_formats) THEN Str(<<>>)
    ELSE LET r == try_format(raw, normalizer_formats[i])
         IN  IF r = ValueError THEN _normalize_date_from_value_errors_only(raw, i + 1)
             ELSE r

RECURSIVE _normalize_date_from(_, _)
\* the loop over the formats, from format i on: any exception goes to the next
_normalize_date_from(raw, i) ==
    IF i > Len(normalizer_formats) THEN Str(<<>>)
    ELSE LET r == try_format(raw, normalizer_formats[i])
         IN  IF IsRaise(r) THEN _normalize_date_from(raw, i + 1) ELSE r

_normalize_date(txn) ==
    LET raw == Or(get(txn, "date"), Or(get(txn, "timestamp"), get(txn, "time")))
    IN  IF ~truthy(raw) THEN Str(<<>>) ELSE _normalize_date_from(raw, 1)

\* variant: the symbols are deleted, not replaced by a space
_normalize_text_deletes_symbols(text) ==
    strip(re_sub_spaces(re_sub_not_alnum_space(<<>>, lower(text))))

_normalize_text(text) ==
    strip(re_sub_spaces(re_sub_not_alnum_space(<<" ">>, lower(text))))

\* TransactionNormalizer.normalize: the unified record, or the exception a
\* field normalizer let through
unified(self_source, txn, amount, date) ==
    IF IsRaise(amount) THEN amount
    ELSE IF IsRaise(date) THEN date
    ELSE [id |-> _get_id(txn),
          source |-> Str(self_source),
          amount |-> amount,
          date |-> date,
          merchant |-> Str(_normalize_text(_get_description(txn).v)),
          raw_text |-> _get_description(txn),
          meta |-> txn]

normalize(self_source, txn) ==
    unified(self_source, txn, _normalize_amount(txn), _normalize_date(txn))

(***************************************************************************)
(* data_normalizer.py: TransactionNormalizer.clean_merchant_name.          *)
(***************************************************************************)
\* \w of re: a letter, a digit or the underscore
IsWordChar(c) == IsLowerLetter(c) \/ IsUpperLetter(c) \/ IsDigit(c) \/ c = "_"

\* re.sub(r'[^\w\s]', ' ', s)
re_sub_not_word_space(s) ==
    [i \in 1..Len(s) |-> IF IsWordChar(s[i]) \/ IsSpace(s[i]) THEN s[i] ELSE " "]

suffixes ==
    << <<"p","v","t"," ","l","t","d">>, <<"l","t","d">>, <<"l","l","p">>,
       <<"i","n","c">>, <<"l","l","c">>, <<"p","v","t">>,
       <<"l","i","m","i","t","e","d">> >>

\* s ends with the characters of suffix
endswith(s, suffix) ==
    /\ Len(s) >= Len(suffix)
    /\ SubSeq(s, Len(s) - Len(suffix) + 1, Len(s)) = suffix

\* re.sub(fr'\s*{re.escape(suffix)}\s*$', '', s): the one match there can be
\* is the suffix at the end of s with the whitespace on both sides of it
remove_suffix(s, suffix) ==
    IF endswith(rstrip(s), suffix)
    THEN rstrip(SubSeq(rstrip(s), 1, Len(rstrip(s)) - Len(suffix)))
    ELSE s

RECURSIVE remove_suffixes_from(_, _)
\* for suffix in suffixes: ..., from suffix i on
remove_suffixes_from(s, i) ==
    IF i > Len(suffixes) THEN s
    ELSE remove_suffixes_from(remove_suffix(s, suffixes[i]), i + 1)

data_normalizer_clean_merchant_name(merchant) ==
    IF isna(merchant)
    THEN <<>>
    ELSE remove_suffixes_from(
             strip(re_sub_spaces(re_sub_not_word_space(strip(lower(str(merchant)))))), 1)

(***************************************************************************)
(* Arguments the calls draw.                                               *)
(***************************************************************************)
SeqsUpTo(S, n) == UNION {[1..l -> S] : l \in 0..n}

MerchantChars == {"P", "o", "s", "x", "7", "-", "*", " "}
SwiggyFoodPvtLtd ==
    <<"S","W","I","G","G","Y","*","F","O","O","D","-","P","V","T"," ","L","T","D">>
MerchantSamples ==
    { SwiggyFoodPvtLtd,
      <<"A","m","a","z","o","n","_","I","n","d","i","a",".","O","n","l","i","n","e">>,
      <<Tab,"U","b","e","r","/","T","r","a","n","s"," "," ","#","4","2">>,
      <<"A","c","m","e"," ","L","L","C">>,
      <<"l","l","p"," ","P","o","s"," ","Z","e","t","a","-","I","N","C">> }
MerchantTexts == SeqsUpTo(MerchantChars, MaxTextLen) \cup MerchantSamples

AmountChars == {"1", "0", ".", "-", ",", Rupee, Yen, "R", " "}
AmountSamples ==
    { <<Rupee," ","1",",","4","9","9",".","0","0">>,
      <<"4",",","2","5","0",".","0","0">>,
      <<"-","2","5","0",".","5","0">>,
      <<Tab,"-","$","1",",","5","'"," ">>,
      <<"\"",Euro,"1",",","0","0","0",".","5","\"">>,
      <<Pound,"2",".","5">>,
      <<"R","s"," ","5","0","0">> }
AmountTexts == SeqsUpTo(AmountChars, MaxAmountLen) \cup AmountSamples

\* date texts: three numerals and two separators, a month name in the middle,
\* surrounding whitespace, a time after the date
DateNumerals ==
    { <<"1">>, <<"0","2">>, <<"1","2">>, <<"1","3">>, <<"2","9">>, <<"3","1">>,
      <<"0","0">>, <<"2","5">>, <<"6","8">>, <<"6","9">>, <<"9","9">>,
      <<"2","0","2","4">>, <<"2","0","2","5">>, <<"0","0","9","9">> }
DateSeparators == { <<"/","/">>, <<"-","-">>, <<".",".">>, <<"/","-">> }
MonthNames == { <<"N","o","v">>, <<"f","e","b">>, <<"N","o","x">> }
NumeralDates ==
    { a \o <<p[1]>> \o b \o <<p[2]>> \o c :
        a \in DateNumerals, b \in DateNumerals, c \in DateNumerals, p \in DateSeparators }
MonthNameDates ==
    { a \o <<"-">> \o b \o <<"-">> \o c :
        a \in DateNumerals, b \in MonthNames, c \in DateNumerals }
OtherDates ==
    { <<>>, <<" ">>, <<"x">>,
      <<" ","1","2","/","1","1","/","2","5",Tab>>,
      <<"1","2","/"," ","5","/","2","5">>,
      <<"2","0","2","5","-","1","0","-","0","6"," ","1","0",":","0","0",":","0","0">> }
DateTexts == NumeralDates \cup MonthNameDates \cup OtherDates

\* tables: the columns of one source layout, any of them absent, no row or
\* one row, any cell empty
Absent == [k |-> "absent", v |-> <<>>, n |-> 0, e |-> 0]
Roles == <<"id", "date", "amount", "merchant", "reference", "currency">>
Layouts ==
    { [id |-> "stmt_ref", date |-> "booking_date", amount |-> "tx_val",
       merchant |-> "description", reference |-> "ext_memo", currency |-> "unit"],
      [id |-> "txn_id", date |-> "entry_date", amount |-> "amt",
       merchant |-> "vendor", reference |-> "ref_code", currency |-> "cur"] }
IdCells == {NaN, Str(<<"B","1">>)}
DateCells == {NaN, Str(<<"0","6","-","1","0","-","2","0","2","5">>), Str(<<"x">>)}
AmountCells == {NaN, Str(<<"1",",","5">>), Str(<<"R","1">>)}
MerchantCells == {NaN, Str(<<"A","*","b">>)}
ReferenceCells == {NaN, Str(<<"r","7">>)}
CurrencyCells == {NaN, Str(<<" ","u","s","d">>), Str(<<"E","u","r">>)}

\* the table of layout l whose row holds the cells of r that are not Absent
TableOf(l, r, withRow) ==
    LET cols == {l[role] : role \in {x \in DOMAIN r : r[x] # Absent}}
        roleOf(c) == CHOOSE role \in DOMAIN r : l[role] = c
    IN  [columns |-> cols,
         rows |-> IF withRow THEN << [c \in cols |-> r[roleOf(c)]] >> ELSE <<>>]

SourceNames ==
    { <<"b","a","n","k">>, <<"B","a","n","k">>, <<"l","e","d","g","e","r">>,
      <<"L","E","D","G","E","R">>, <<"g","a","t","e","w","a","y">>, <<>> }

\* raw transactions: the two of test.py, and rows whose values are missing,
\* empty, numeric, or strings that do not parse
BankTxn ==
    [id |-> Str(<<"B","1","0","2">>),
     amt |-> Str(<<"4",",","2","5","0",".","0","0">>),
     desc |-> Str(<<"S","W","I","G","G","Y","*","F","O","O","D">>),
     date |-> Str(<<"2","4","-","1","0","-","2","0","2","5">>)]
LedgerTxn ==
    [txn_id |-> Str(<<"L","5","5","6">>),
     amount |-> IntV(4250),
     narration |-> Str(<<"S","w","i","g","g","y"," ","O","r","d","e","r">>),
     timestamp |-> Str(<<"2","0","2","5","/","1","0","/","2","4">>)]
EmptyTxn == [key \in {} |-> None]
TxnAmounts == {None, Str(<<>>), IntV(7), Str(<<" ","1",",","5","-">>)}
TxnDates ==
    {Str(<<>>), IntV(20251024), Str(<<"j","u","n","k">>),
     Str(<<"3","1","/","0","2","/","2","0","2","5">>)}
OtherTxns ==
    { BankTxn, LedgerTxn, EmptyTxn,
      [id |-> IntV(0), transaction_id |-> IntV(12), amount |-> IntV(0),
       amt |-> Str(<<"-","1",".","5","0">>), merchant |-> Str(<<"P","v","t","_","L","t","d">>),
       time |-> Str(<<"2","0","2","5","-","1","0","-","2","4"," ","1","0",":","0","0",":",
                      "0","0",".","5">>)],
      [id |-> Str(<<>>), txn_id |-> Str(<<"T","1">>), desc |-> Str(<<>>),
       description |-> IntV(5), date |-> IntV(0), amount |-> Float(25, 1),
       timestamp |-> Str(<<"2","0","2","5","-","1","0","-","2","4"," ","1","0",":","0","0",":",
                           "0","0">>)] }
Txns ==
    OtherTxns \cup
    { [amount |-> a, date |-> d] : a \in TxnAmounts, d \in TxnDates }
TxnLists == SeqsUpTo(Txns, MaxTxns)

\* merchant names for data_normalizer: up to MaxPieces pieces put together,
\* a piece being a suffix, a word, a letter, a space or a symbol
Pieces ==
    { <<"l","t","d">>, <<"p","v","t">>, <<"L","L","P">>, <<"i","n","c">>,
      <<"l","i","m","i","t","e","d">>, <<"l","l","c">>,
      <<"a","c","m","e">>, <<"z">>, <<" ">>, <<"&">>, <<"_">> }
RECURSIVE Concat(_)
Concat(ps) == IF ps = <<>> THEN <<>> ELSE Head(ps) \o Concat(Tail(ps))
SuffixedNames == {Concat(ps) : ps \in SeqsUpTo(Pieces, MaxPieces)}

NoValue == [k |-> "novalue", v |-> <<>>, n |-> 0, e |-> 0]

(***************************************************************************)
(* The calls.                                                              *)
(***************************************************************************)
Init ==
    /\ fn = "idle"
    /\ arg = NoValue
    /\ ret = NoValue
    /\ raised = "none"
    /\ prev = NoValue
    /\ idx = 0

\* clean_merchant_name(x) on a text
CallCleanMerchant ==
    /\ fn = "idle"
    /\ \E x \in MerchantTexts :
          /\ arg' = Str(x)
          /\ ret' = Str(clean_merchant_name(Str(x)))
    /\ fn' = "clean_merchant_name"
    /\ UNCHANGED <<raised, prev, idx>>

\* the caller hands the cleaned text back to clean_merchant_name
CallCleanMerchantAgain ==
    /\ fn = "clean_merchant_name"
    /\ prev = NoValue
    /\ prev' = arg
    /\ arg' = ret
    /\ ret' = Str(clean_merchant_name(ret))
    /\ UNCHANGED <<fn, raised, idx>>

\* clean_amount(x) on a text
CallCleanAmount ==
    /\ fn = "idle"
    /\ \E x \in AmountTexts :
          /\ arg' = Str(x)
          /\ ret' = clean_amount(Str(x))
    /\ fn' = "clean_amount"
    /\ UNCHANGED <<raised, prev, idx>>

\* parse_date(x) on a text
CallParseDate ==
    /\ fn = "idle"
    /\ \E x \in DateTexts :
          /\ arg' = Str(x)
          /\ ret' = parse_date(Str(x))
    /\ fn' = "parse_date"
    /\ UNCHANGED <<raised, prev, idx>>

\* normalize.normalize_batch(path, source), path holding a table with a row
CallNormalizeBatch ==
    /\ fn = "idle"
    /\ \E l \in Layouts, source \in SourceNames,
          i \in IdCells \cup {Absent}, d \in DateCells \cup {Absent},
          a \in AmountCells \cup {Absent}, m \in MerchantCells \cup {Absent},
          r \in ReferenceCells \cup {Absent}, c \in CurrencyCells \cup {Absent} :
          \E df \in {TableOf(l, [id |-> i, date |-> d, amount |-> a, merchant |-> m,
                                  reference |-> r, currency |-> c], TRUE)} :
             \E res \in {normalize_batch(df, source)} :
                /\ arg' = [df |-> df, source |-> source]
                /\ ret' = res.value
                /\ raised' = res.raised
    /\ fn' = "normalize_batch"
    /\ UNCHANGED <<prev, idx>>

\* normalize.normalize_batch(path, source), path holding a header and no row
CallNormalizeBatchNoRows ==
    /\ fn = "idle"
    /\ \E l \in Layouts, source \in SourceNames, present \in SUBSET Range(Roles) :
          \E df \in {TableOf(l, [role \in Range(Roles) |->
                                     IF role \in present THEN NaN ELSE Absent], FALSE)} :
             \E res \in {normalize_batch(df, source)} :
                /\ arg' = [df |-> df, source |-> source]
                /\ ret' = res.value
                /\ raised' = res.raised
    /\ fn' = "normalize_batch"
    /\ UNCHANGED <<prev, idx>>

\* normalizer.normalize_batch(txns, source): the comprehension starts
CallNormalizerBatch ==
    /\ fn = "idle"
    /\ \E ts \in TxnLists, source \in {<<"b","a","n","k">>, <<"L","e","d","g","e","r">>} :
          arg' = [txns |-> ts, source |-> source]
    /\ fn' = "normalizer.normalize_batch"
    /\ ret' = <<>>
    /\ idx' = 0
    /\ UNCHANGED <<raised, prev>>

\* [normalizer.normalize(t) for t in txns]: the next row
ComprehensionStep ==
    /\ fn = "normalizer.normalize_batch"
    /\ raised = "none"
    /\ idx < Len(arg.txns)
    /\ \E r \in {normalize(lower(arg.source), arg.txns[idx + 1])} :
          IF "k" \in DOMAIN r /\ IsRaise(r)
          THEN /\ raised' = "exception"
               /\ ret' = <<>>
          ELSE /\ ret' = Append(ret, r)
               /\ raised' = raised
    /\ idx' = idx + 1
    /\ UNCHANGED <<fn, arg, prev>>

\* TransactionNormalizer().clean_merchant_name(x) of data_normalizer.py on a
\* merchant name, or on a missing cell
CallSuffixClean ==
    /\ fn = "idle"
    /\ \E x \in {Str(s) : s \in SuffixedNames} \cup {NaN} :
          /\ arg' = x
          /\ ret' = Str(data_normalizer_clean_merchant_name(x))
    /\ fn' = "data_normalizer.clean_merchant_name"
    /\ UNCHANGED <<raised, prev, idx>>

\* the caller hands the cleaned name back to it
CallSuffixCleanAgain ==
    /\ fn = "data_normalizer.clean_merchant_name"
    /\ prev = NoValue
    /\ prev' = arg
    /\ arg' = ret
    /\ ret' = Str(data_normalizer_clean_merchant_name(ret))
    /\ UNCHANGED <<fn, raised, idx>>

\* the call has returned or raised
Finished ==
    fn = "normalizer.normalize_batch" => (raised # "none" \/ idx = Len(arg.txns))

\* the call is over; the next one starts from scratch
Return ==
    /\ fn # "idle"
    /\ Finished
    /\ fn' = "idle"
    /\ arg' = NoValue
    /\ ret' = NoValue
    /\ raised' = "none"
    /\ prev' = NoValue
    /\ idx' = 0

Next ==
    \/ CallCleanMerchant
    \/ CallCleanMerchantAgain
    \/ CallCleanAmount
    \/ CallParseDate
    \/ CallNormalizeBatch
    \/ CallNormalizeBatchNoRows
    \/ CallNormalizerBatch
    \/ ComprehensionStep
    \/ CallSuffixClean
    \/ CallSuffixCleanAgain
    \/ Return

Spec == Init /\ [][Next]_vars

\* the calls of one function at a time
NextMerchant == CallCleanMerchant \/ CallCleanMerchantAgain \/ Return
SpecMerchant == Init /\ [][NextMerchant]_vars

NextAmount == CallCleanAmount \/ Return
SpecAmount == Init /\ [][NextAmount]_vars

NextDate == CallParseDate \/ Return
SpecDate == Init /\ [][NextDate]_vars

NextBatch == CallNormalizeBatch \/ CallNormalizeBatchNoRows \/ Return
SpecBatch == Init /\ [][NextBatch]_vars

NextNormalizer == CallNormalizerBatch \/ ComprehensionStep \/ Return
SpecNormalizer == Init /\ [][NextNormalizer]_vars

NextSuffixes == CallSuffixClean \/ CallSuffixCleanAgain \/ Return
SpecSuffixes == Init /\ [][NextSuffixes]_vars

(***************************************************************************)
(* Properties of clean_merchant_name (SpecMerchant).                       *)
(***************************************************************************)
\* C1: clean_merchant_name is idempotent: when it is called on the text a
\* previous call returned, it returns that text unchanged.
C1_Idempotent ==
    (fn = "clean_merchant_name" /\ prev # NoValue) => ret = arg

\* a text with a stopword, upper case and punctuation was cleaned to a
\* non-empty text, and that text was cleaned again
C1_Witness ==
    /\ fn = "clean_merchant_name"
    /\ prev # NoValue
    /\ \E i \in 1..Len(prev.v) : prev.v[i] = "*"
    /\ \E w \in Range(split(lower(prev.v))) : w \in stopwords
    /\ arg.v # <<>>
    /\ arg # prev
    /\ ret = arg

\* C10 as stated: 'SWIGGY*FOOD-PVT LTD' is cleaned to 'swiggy food'.
C10_Original ==
    (fn = "clean_merchant_name" /\ arg = Str(SwiggyFoodPvtLtd))
        => ret = Str(<<"s","w","i","g","g","y"," ","f","o","o","d">>)

\* C10 amended: 'SWIGGY*FOOD-PVT LTD' is cleaned to 'swiggyfood': the '*' is
\* deleted and joins the words around it, the '-' separates 'food' from
\* 'pvt', and the tokens 'pvt' and 'ltd' are dropped.
C10_Amended ==
    (fn = "clean_merchant_name" /\ arg = Str(SwiggyFoodPvtLtd))
        => ret = Str(<<"s","w","i","g","g","y","f","o","o","d">>)

C10_Witness ==
    /\ fn = "clean_merchant_name"
    /\ arg = Str(SwiggyFoodPvtLtd)
    /\ prev = NoValue
    /\ Len(ret.v) = 10

\* the stopword set as the claim lists it
ListedStopwords ==
    { <<"p","v","t">>, <<"l","t","d">>, <<"l","i","m","i","t","e","d">>,
      <<"i","n","c">>, <<"l","l","c">>, <<"l","l","p">>, <<"c","o","r","p">>,
      <<"c","o","r","p","o","r","a","t","i","o","n">>, <<"i","n","d","i","a">>,
      <<"o","n","l","i","n","e">>, <<"p","o","s">>, <<"t","r","a","n","s">>,
      <<"t","r","a","n","s","a","c","t","i","o","n">> }

\* the tokens of the text x once lowercased, its separators made spaces and
\* its other special characters deleted
TokensOf(x) ==
    split(re_sub_not_alnum_space(<<>>,
              re_sub_class({"_", "-", ".", "/"}, <<" ">>, lower(strip(x)))))

\* ws without its members that are in S, the others in their order
Surviving(ws, S) ==
    LET kept == {i \in 1..Len(ws) : ws[i] \notin S}
        nth(n) == CHOOSE i \in kept : Cardinality({j \in kept : j < i}) = n - 1
    IN  [n \in 1..Cardinality(kept) |-> ws[nth(n)]]

\* C11 as stated: the result has no token of the thirteen listed stopwords
\* (pvt, ltd, limited, inc, llc, llp, corp, corporation, india, online, pos,
\* trans, transaction); it is the other tokens of the text, in their order,
\* joined by single spaces.
C11_Original ==
    fn = "clean_merchant_name" =>
        /\ \A w \in Range(split(ret.v)) : w \notin ListedStopwords
        /\ ret.v = join(Surviving(TokensOf(arg.v), ListedStopwords))

\* the listed stopwords that the list of the code holds
ListedInCode == ListedStopwords \ {<<"l","l","c">>, <<"l","l","p">>}

\* C11 amended: the result has no token of the eleven stopwords of the code
\* (pvt, ltd, limited, india, inc, corp, corporation, online, pos, trans,
\* transaction); 'llc' and 'llp' are no stopwords and stay; the result is
\* the other tokens of the text, in their order, joined by single spaces.
C11_Amended ==
    fn = "clean_merchant_name" =>
        /\ \A w \in Range(split(ret.v)) : w \notin ListedInCode
        /\ ret.v = join(Surviving(TokensOf(arg.v), ListedInCode))

\* a text with two stopwords and the token 'llp' was cleaned: the stopwords
\* are gone, 'llp' and the other token are left in their order
C11_Witness ==
    /\ fn = "clean_merchant_name"
    /\ prev = NoValue
    /\ <<"p","o","s">> \in Range(TokensOf(arg.v))
    /\ <<"i","n","c">> \in Range(TokensOf(arg.v))
    /\ ret.v = <<"l","l","p"," ","z","e","t","a">>

(***************************************************************************)
(* Properties of clean_amount (SpecAmount).                                *)
(***************************************************************************)
\* a signed decimal: an optional sign, then digits with at most one point
IsSignedDecimal(s) ==
    LET body == IF s # <<>> /\ s[1] \in {"-", "+"} THEN Tail(s) ELSE s
    IN  /\ \E i \in 1..Len(body) : IsDigit(body[i])
        /\ \A i \in 1..Len(body) : IsDigit(body[i]) \/ body[i] = "."
        /\ \A i, j \in 1..Len(body) : (body[i] = "." /\ body[j] = ".") => i = j

RECURSIVE SumDigits(_, _)
\* the digits of s from position i on, read as one number
SumDigits(s, i) ==
    IF i > Len(s) THEN 0
    ELSE IF IsDigit(s[i])
    THEN DigitVal(s[i]) * Pow10(Cardinality({j \in (i + 1)..Len(s) : IsDigit(s[j])}))
         + SumDigits(s, i + 1)
    ELSE SumDigits(s, i + 1)

\* the value of a signed decimal
DecimalValue(s) ==
    LET places == Cardinality({j \in 1..Len(s) :
                     IsDigit(s[j]) /\ \E i \in 1..(j - 1) : s[i] = "."})
        mag == SumDigits(s, 1)
    IN  Float(IF s[1] = "-" THEN -mag ELSE mag, places)

AmountOf(s) == IF IsSignedDecimal(s) THEN DecimalValue(s) ELSE Float(0, 0)

\* s without every character that is not a digit, a point or a leading minus
KeepDigitsPointLeadingMinus(s) ==
    LET keep(i) ==
            \/ IsDigit(s[i])
            \/ s[i] = "."
            \/ /\ s[i] = "-"
               /\ \A j \in 1..(i - 1) : ~IsDigit(s[j]) /\ s[j] # "." /\ s[j] # "-"
        kept == {i \in 1..Len(s) : keep(i)}
        nth(n) == CHOOSE i \in kept : Cardinality({j \in kept : j < i}) = n - 1
    IN  [n \in 1..Cardinality(kept) |-> s[nth(n)]]

NotAmountJunk(c) == c \notin {Rupee, "$", Euro, Pound, ",", " ", "\"", "'"}

MonthDayYear2 == date_formats[5]
DayMonthYear2 == date_formats[6]

\* the number written by the characters of s before its first '-'
RECURSIVE LeadingNumber(_)
LeadingNumber(s) ==
    IF s = <<>> \/ ~IsDigit(Head(s)) THEN <<>> ELSE <<Head(s)>> \o LeadingNumber(Tail(s))
YearOf(s) == DigitsVal(LeadingNumber(s))

\* C4 as stated: a text that is a valid date in MM/DD/YY or DD/MM/YY form is
\* parsed to a date of the year 2000 + YY.
C4_Original ==
    fn = "parse_date" =>
        LET s == strip(arg.v)
            yy == DigitsVal(SubSeq(s, Len(s) - 1, Len(s)))
        IN  (strptime(s, MonthDayYear2).ok \/ strptime(s, DayMonthYear2).ok)
                => (ret.k = "str" /\ YearOf(ret.v) = 2000 + yy)

\* the formats that match the whole of s as a calendar date
Matching(s) == {i \in 1..Len(date_formats) : strptime(s, date_formats[i]).ok}
First(S) == CHOOSE i \in S : \A j \in S : i <= j

\* C5 as stated: parse_date returns the YYYY-MM-DD form of the date the first
\* matching format reads in the trimmed text, None when no format matches;
\* a slash date with a four-digit year is read day first, one with a
\* two-digit year month first exactly when its first number is a month.
C5_Original ==
    fn = "parse_date" =>
        LET s == strip(arg.v)
            M == Matching(s)
            dt == strptime(s, date_formats[First(M)])
            first == DigitsVal(LeadingNumber(s))
        IN  /\ M = {} => ret = None
            /\ M # {} => ret = Str(isoformat(dt))
            /\ (M # {} /\ First(M) = 4) => dt.d = first
            /\ (M # {} /\ First(M) \in {5, 6}) =>
                   IF first \in 1..12 THEN dt.m = first ELSE dt.d = first

(***************************************************************************)
(* Properties of normalize.normalize_batch (SpecBatch).                    *)
(***************************************************************************)
\* C2 as stated: every record has exactly the eight keys and no null value.
C2_Original ==
    (fn = "normalize_batch" /\ raised = "none") =>
        \A i \in 1..Len(ret) :
            /\ DOMAIN ret[i] = Range(required_columns)
            /\ \A c \in DOMAIN ret[i] : ~isna(ret[i][c])

\* C3 as stated: a source that is neither 'bank' nor 'ledger' always raises.
C3_Original ==
    (fn = "normalize_batch" /\ lower(arg.source) \notin {Chars("bank"), Chars("ledger")})
        => raised # "none"

\* the column of the table that the source's mapping names currency
CurrencyColumn(source) == IF lower(source) = Chars("ledger") THEN "cur" ELSE "unit"
HasCurrency(df, i, source) ==
    /\ CurrencyColumn(source) \in df.columns
    /\ ~isna(df.rows[i][CurrencyColumn(source)])

\* C9 as stated: currency is the raw cell uppercased and trimmed, 'INR' when
\* the column or the cell is absent.
C9_Original ==
    (fn = "normalize_batch" /\ raised = "none") =>
        \A i \in 1..Len(ret) :
            ret[i]["currency"] =
                IF HasCurrency(arg.df, i, arg.source)
                THEN Str(upper(strip(arg.df.rows[i][CurrencyColumn(arg.source)].v)))
                ELSE Str(<<"I","N","R">>)

\* C9 amended: currency is the raw cell uppercased, its leading and trailing
\* whitespace kept, and 'INR' when the column or the cell is absent.
C9_Amended ==
    (fn = "normalize_batch" /\ raised = "none") =>
        \A i \in 1..Len(ret) :
            ret[i]["currency"] =
                IF HasCurrency(arg.df, i, arg.source)
                THEN Str(upper(arg.df.rows[i][CurrencyColumn(arg.source)].v))
                ELSE Str(<<"I","N","R">>)

\* a record whose currency cell began with a space, and kept it
C9_Witness ==
    /\ fn = "normalize_batch"
    /\ raised = "none"
    /\ Len(ret) = 1
    /\ HasCurrency(arg.df, 1, arg.source)
    /\ ret[1]["currency"] = Str(<<" ","U","S","D">>)

(***************************************************************************)
(* Properties of normalizer.normalize_batch (SpecNormalizer).              *)
(***************************************************************************)
\* the call of normalizer.normalize_batch has returned or raised
BatchOver ==
    /\ fn = "normalizer.normalize_batch"
    /\ raised # "none" \/ idx = Len(arg.txns)

TestCall ==
    /\ BatchOver
    /\ arg.txns = <<BankTxn>>
    /\ arg.source = <<"b","a","n","k">>

C8_RowByRow ==
    BatchOver =>
        /\ raised = "none"
        /\ Len(ret) = Len(arg.txns)
        /\ \A i \in 1..Len(ret) :
              /\ ret[i] = normalize(lower(arg.source), arg.txns[i])
              /\ ret[i]["meta"] = arg.txns[i]
              /\ ret[i]["source"] = Str(lower(arg.source))

\* two different rows, one with a number for a date and one with an amount
\* that does not parse, were both normalized
C8_Witness ==
    /\ BatchOver
    /\ Len(arg.txns) = 2
    /\ Len(ret) = 2
    /\ arg.txns[1] # arg.txns[2]
    /\ get(arg.txns[1], "date").k = "int"
    /\ get(arg.txns[2], "amount") = Str(<<" ","1",",","5","-">>)
    /\ ret[1]["date"] = Str(<<>>)
    /\ ret[2]["amount"] = Float(0, 0)

(***************************************************************************)
(* Properties of data_normalizer's clean_merchant_name (SpecSuffixes).     *)
(***************************************************************************)
\* C12 as stated: clean_merchant_name of data_normalizer.py is idempotent:
\* called on the name a first call returned, it returns that name.
C12_Original ==
    (fn = "data_normalizer.clean_merchant_name" /\ prev # NoValue) => ret = arg

====
